---- MODULE Spec2Model ----
(***************************************************************************)
(* Model of the useAudioAnalyzer hook (src/src/hooks/useAudioAnalyzer.ts): *)
(* the capture session life cycle (start / stop / reset), the animation-   *)
(* frame tick loop with its throttle, the signal window selector with the  *)
(* silence gate, and the consensus / lock-in buffer.                       *)
(*                                                                         *)
(* Units.  Frequencies are integers in hundredths of a hertz (40007 is     *)
(* 400.07 Hz), so that rounding to one decimal place is a real operation.  *)
(* Sample amplitudes are integers in thousandths of full scale, so the     *)
(* minimum-signal RMS 0.004 is 4.  Time is in milliseconds.                *)
(* The time-domain buffer of analyser.fftSize = 32768 samples is kept as   *)
(* 8 blocks of 4096 samples, each block of constant magnitude: every       *)
(* offset the window scan visits is a multiple of 4096.                    *)
(***************************************************************************)
EXTENDS Integers, Sequences, FiniteSets

(* ------------------------------------------------------------------ *)
(* Program constants                                                   *)
(* ------------------------------------------------------------------ *)
LOCK_COUNT == 5
MIN_SIGNAL_RMS == 4
DETECTION_INTERVAL_MS == 350
fftSize == 32768
analysisSize == 16384
scanStride == 4096

\* LOCK_THRESHOLD = 0.03 as the ratio ThresholdNum / ThresholdDen
ThresholdNum == 3
ThresholdDen == 100

\* null of `number | null` (state.frequency) and of the refs
Null == -1
\* the estimator's "no estimate" (null; falsy in `if (freq)`)
NoFreq == 0

(* ------------------------------------------------------------------ *)
(* Bounds of the model                                                 *)
(* ------------------------------------------------------------------ *)
\* media streams acquired and not released, or being acquired, at a time
MaxLive == 2
\* clock steps of FrameMs the life-cycle model takes
MaxFrames == 10
\* clock steps of DETECTION_INTERVAL_MS the single-session model takes
SessionSteps == 9
\* granularity of the life-cycle model's clock: two steps make up the
\* detection interval, so a frame may come too early for a detection
FrameMs == DETECTION_INTERVAL_MS \div 2

\* Estimates the spectral estimator may return (hundredths of Hz)
Freqs == {40000, 41207, 45000, 70006}

\* Buffers handed to a tick, as the magnitudes (thousandths of full scale) of
\* their 8 blocks of 4096 samples: silence, a uniformly sub-threshold signal, a
\* uniformly loud signal, and one loud block at the start of the last window
\* followed by silence.
Blocks(a, b, c, d, e, f, g, h) == <<a, b, c, d, e, f, g, h>>
TickBuffers ==
    { Blocks(0, 0, 0, 0, 0, 0, 0, 0),
      Blocks(3, 3, 3, 3, 3, 3, 3, 3),
      Blocks(6, 6, 6, 6, 6, 6, 6, 6),
      Blocks(0, 0, 0, 0, 6, 0, 0, 0) }

\* A validator is a predicate on frequencies (type ValidateFrequency); the
\* model's validators accept a band [lo, hi].  The application's validator
\* accepts the frequencies whose computed tension is within 20..65 lbs.
NoValidator == [lo |-> Null, hi |-> Null]
BandValidator == [lo |-> 38000, hi |-> 69000]
Validators == {BandValidator}
Accepts(v, f) == v.lo <= f /\ f <= v.hi

VARIABLES
    state,             \* AnalyzerState: status, frequency, lockReadings, error
    audioContextRef,   \* id of the AudioContext held, or Null
    streamRef,         \* id of the MediaStream held, or Null
    analyserRef,       \* id of the context whose analyser is held, or Null
    rafIdRef,          \* id of the last requested animation frame, or 0
    lockReadingsRef,   \* the lock buffer
    lockedRef,         \* the locked flag
    lastDetectionRef,  \* time of the last detection
    validateRef,       \* the validator in force, or NoValidator
    rafQueue,          \* animation-frame callbacks requested and not yet run
    awaiting,          \* start() calls suspended at `await getUserMedia`
    liveStreams,       \* streams acquired whose tracks are not stopped
    openContexts,      \* audio contexts created and not closed
    hasMediaDevices,   \* navigator.mediaDevices.getUserMedia exists
    now,               \* performance.now()
    stopped,           \* history: stop() returned, no start()/reset() since
    supplied,          \* history: the validator given to the last start()
    pendingValidate,   \* the `validate` arguments of the suspended start() calls
    sessionValidate,   \* history: the `validate` argument of the start() call
                       \* whose continuation set the running capture up
    run,               \* history: the readings taken in since the last outlier
    detectedAt,        \* history: time of the running loop's last detection
    ev,                \* history: the last operation and what it read
    calc               \* a pure function under evaluation: argument and result

\* the hook, its environment and its history
hookVars == <<state, audioContextRef, streamRef, analyserRef, rafIdRef,
              lockReadingsRef, lockedRef, lastDetectionRef, validateRef,
              rafQueue, awaiting, liveStreams, openContexts, hasMediaDevices,
              now, stopped, supplied, pendingValidate, sessionValidate, run,
              detectedAt, ev>>

vars == <<hookVars, calc>>

(* ------------------------------------------------------------------ *)
(* Arithmetic helpers                                                  *)
(* ------------------------------------------------------------------ *)
Abs(x) == IF x < 0 THEN -x ELSE x
Max(a, b) == IF a >= b THEN a ELSE b
Min(a, b) == IF a <= b THEN a ELSE b

RECURSIVE SeqSum(_)
SeqSum(s) == IF s = <<>> THEN 0 ELSE Head(s) + SeqSum(Tail(s))

\* Math.round(f * 10) / 10 on a frequency in hundredths of Hz
\* (Math.round rounds half up); the variant truncates
Round1Floor(f) == (f \div 10) * 10
Round1(f) == ((f + 5) \div 10) * 10

(* ------------------------------------------------------------------ *)
(* Signal window selector (tick, lines 62-83)                          *)
(* ------------------------------------------------------------------ *)
\* |timeDomainBuf[i]|
SampleAt(buf, i) == buf[(i \div scanStride) + 1]

\* sum of timeDomainBuf[i]^2 for i in off .. off+n-1
RECURSIVE SumSq(_, _, _)
SumSq(buf, off, n) ==
    IF n <= 0 THEN 0
    ELSE LET span == Min(n, scanStride - (off % scanStride))
         IN  span * SampleAt(buf, off) * SampleAt(buf, off)
               + SumSq(buf, off + span, n - span)

\* Math.sqrt on the mean squares the model produces (exact squares);
\* otherwise the integer part
Sqrt(n) == CHOOSE r \in 0..n : r * r <= n /\ (r + 1) * (r + 1) > n

\* rms of the checkLen samples from off
CheckRms(buf, off) ==
    LET checkLen == Min(scanStride, fftSize - off)
    IN  Sqrt(SumSq(buf, off, checkLen) \div checkLen)

\* the for loop over candidate offsets, from the tail backward
RECURSIVE ScanFrom(_, _, _)
ScanFrom(buf, off, best) ==
    IF off < 0 THEN best
    ELSE LET rms == CheckRms(buf, off)
             nxt == IF rms > best.rms
                    THEN [rms |-> rms, offset |-> off]
                    ELSE best
         IN  ScanFrom(buf, off - scanStride, nxt)

\* bestRms and bestOffset after the scan
SelectWindow(buf) ==
    ScanFrom(buf, Max(0, fftSize - analysisSize),
             [rms |-> 0, offset |-> Max(0, fftSize - analysisSize)])

WindowStart(bestOffset) == Max(0, Min(bestOffset, fftSize - analysisSize))

\* sum of squares over the analysis window handed to the estimator
WindowSumSq(buf) ==
    SumSq(buf, WindowStart(SelectWindow(buf).offset), analysisSize)

\* the silence gate: bestRms >= MIN_SIGNAL_RMS
SignalPresent(bestRms) == bestRms >= MIN_SIGNAL_RMS

(* ------------------------------------------------------------------ *)
(* Consensus buffer (tick, lines 90-129)                               *)
(* ------------------------------------------------------------------ *)
\* if (freq); the variant takes null for an estimate
HasEstimateAlways(freq) == TRUE
HasEstimate(freq) == freq # NoFreq

\* validateRef.current && !validateRef.current(freq); the variant never
\* consults the validator
RejectedNever(validate, f) == FALSE
Rejected(validate, f) == validate # NoValidator /\ ~Accepts(validate, f)

\* readings.length === 0 || readings.every(r => |r - freq| / r < LOCK_THRESHOLD);
\* the variants measure the distance relative to the new value, or compare
\* with the last reading only
IsConsistentRelativeToNew(readings, f) ==
    \/ Len(readings) = 0
    \/ \A i \in 1..Len(readings) :
          ThresholdDen * Abs(readings[i] - f) < ThresholdNum * f
IsConsistentWithLast(readings, f) ==
    \/ Len(readings) = 0
    \/ ThresholdDen * Abs(readings[Len(readings)] - f)
          < ThresholdNum * readings[Len(readings)]
IsConsistent(readings, f) ==
    \/ Len(readings) = 0
    \/ \A i \in 1..Len(readings) :
          ThresholdDen * Abs(readings[i] - f) < ThresholdNum * readings[i]

\* the buffer after the reading is taken in; the variants drop the outlier
\* with the rest, or never clear the buffer
PushReadingDropOutlier(readings, f) ==
    IF IsConsistent(readings, f) THEN Append(readings, f) ELSE <<>>
PushReadingKeepAll(readings, f) == Append(readings, f)
PushReading(readings, f) ==
    IF IsConsistent(readings, f) THEN Append(readings, f) ELSE <<f>>

\* readings.length >= LOCK_COUNT; the variant is off by one
LockReachedEarly(readings) == Len(readings) >= LOCK_COUNT - 1
LockReached(readings) == Len(readings) >= LOCK_COUNT

\* Math.round(avgFreq * 10) / 10, avgFreq the mean of the readings; the
\* variant reports the last reading
LockedFrequencyLast(readings) == Round1(readings[Len(readings)])
LockedFrequency(readings) ==
    LET n == Len(readings)
        s == SeqSum(readings)
    IN  ((2 * s + 10 * n) \div (20 * n)) * 10

(* ------------------------------------------------------------------ *)
(* Animation frames, streams and contexts                              *)
(* ------------------------------------------------------------------ *)
IdleState == [status |-> "idle", frequency |-> Null,
              lockReadings |-> <<>>, error |-> "null"]
ListeningState == [status |-> "listening", frequency |-> Null,
                   lockReadings |-> <<>>, error |-> "null"]

\* an id no pending callback has (requestAnimationFrame returns a new one)
FreshRafId(q) ==
    CHOOSE i \in 1..(Cardinality(q) + 1) : \A c \in q : c.id # i

\* an id no live resource has
FreshId(S) == CHOOSE i \in 1..(Cardinality(S) + 1) : i \notin S

\* cancelAnimationFrame(rafIdRef.current); the variant cancels nothing
CancelledNothing(q, id) == q
Cancelled(q, id) == {c \in q : c.id # id}

\* the queue and rafIdRef after requestAnimationFrame(tick) of the loop on
\* ctx; the variant requests nothing
RequestedNothing(q, ctx) == [id |-> 0, queue |-> q]
Requested(q, ctx) == [id |-> FreshRafId(q),
                      queue |-> q \cup {[id |-> FreshRafId(q), ctx |-> ctx]}]

\* the record of an operation that read nothing
EvOp(op) == [op |-> op, ran |-> FALSE, estimated |-> FALSE, freq |-> NoFreq,
             bestRms |-> 0, winSumSq |-> 0, preLen |-> 0]

\* no outlier yet: discarded is the number of readings the last outlier
\* cleared, since the number of readings taken in after it
NoRun == [discarded |-> 0, since |-> 0]

\* no pure function is under evaluation
NoCalc == [fn |-> "none", arg |-> 0, out |-> 0, done |-> FALSE]

\* how many suspended start() calls were given each validator (or none)
NonePending == [v \in Validators \cup {NoValidator} |-> 0]

HookInit ==
    /\ state = IdleState
    /\ audioContextRef = Null
    /\ streamRef = Null
    /\ analyserRef = Null
    /\ rafIdRef = 0
    /\ lockReadingsRef = <<>>
    /\ lockedRef = FALSE
    /\ lastDetectionRef = 0
    /\ validateRef = NoValidator
    /\ rafQueue = {}
    /\ awaiting = 0
    /\ liveStreams = {}
    /\ openContexts = {}
    /\ hasMediaDevices \in BOOLEAN
    /\ now = 0
    /\ stopped = FALSE
    /\ supplied = NoValidator
    /\ pendingValidate = NonePending
    /\ sessionValidate = NoValidator
    /\ run = NoRun
    /\ detectedAt = Null
    /\ ev = EvOp("init")

Init == HookInit /\ calc = NoCalc

(* ------------------------------------------------------------------ *)
(* stop()                                                              *)
(* ------------------------------------------------------------------ *)
\* what stop() does to the refs, the scheduler and the devices
StopRefs ==
    /\ rafQueue' = Cancelled(rafQueue, rafIdRef)
    /\ rafIdRef' = 0
    /\ liveStreams' = liveStreams \ {streamRef}
    /\ streamRef' = Null
    /\ openContexts' = openContexts \ {audioContextRef}
    /\ audioContextRef' = Null
    /\ analyserRef' = Null
    /\ lockReadingsRef' = <<>>
    /\ lockedRef' = FALSE
    /\ lastDetectionRef' = 0

Stop ==
    /\ StopRefs
    /\ validateRef' = NoValidator
    /\ state' = IdleState
    /\ stopped' = TRUE
    /\ supplied' = NoValidator
    /\ sessionValidate' = NoValidator
    /\ run' = NoRun
    /\ detectedAt' = Null
    /\ ev' = EvOp("stop")
    /\ UNCHANGED calc
    /\ UNCHANGED <<awaiting, pendingValidate, hasMediaDevices, now>>

(* ------------------------------------------------------------------ *)
(* start(validate): up to `await getUserMedia`, and its continuations  *)
(* ------------------------------------------------------------------ *)
StartCall(validate, maxLive) ==
    /\ awaiting + Cardinality(liveStreams \ {streamRef}) < maxLive
    /\ StopRefs
    /\ validateRef' = IF validate # NoValidator THEN validate ELSE NoValidator
    /\ IF ~hasMediaDevices
       THEN /\ state' = [IdleState EXCEPT !.error = "https"]
            /\ awaiting' = awaiting
            /\ pendingValidate' = pendingValidate
       ELSE /\ state' = [IdleState EXCEPT !.status = "requesting"]
            /\ awaiting' = awaiting + 1
            /\ pendingValidate' = [pendingValidate EXCEPT ![validate] = @ + 1]
    /\ stopped' = FALSE
    /\ supplied' = validate
    /\ sessionValidate' = NoValidator
    /\ run' = NoRun
    /\ detectedAt' = Null
    /\ ev' = EvOp("start")
    /\ UNCHANGED calc
    /\ UNCHANGED <<hasMediaDevices, now>>

\* getUserMedia resolved: the rest of start() runs
StartResolve ==
    /\ awaiting > 0
    /\ awaiting' = awaiting - 1
    /\ \E v \in Validators \cup {NoValidator} :
          /\ pendingValidate[v] > 0
          /\ pendingValidate' = [pendingValidate EXCEPT ![v] = @ - 1]
          /\ sessionValidate' = v
    /\ LET stream == FreshId(liveStreams)
           ctx == FreshId(openContexts)
           loop == Requested(Cancelled(rafQueue, rafIdRef), ctx)
       IN  /\ streamRef' = stream
           /\ liveStreams' = liveStreams \cup {stream}
           /\ audioContextRef' = ctx
           /\ openContexts' = openContexts \cup {ctx}
           /\ analyserRef' = ctx
           /\ rafIdRef' = loop.id
           /\ rafQueue' = loop.queue
    /\ lockedRef' = FALSE
    /\ lockReadingsRef' = <<>>
    /\ lastDetectionRef' = 0
    /\ state' = ListeningState
    /\ run' = NoRun
    /\ detectedAt' = Null
    /\ ev' = EvOp("resolve")
    /\ UNCHANGED calc
    /\ UNCHANGED <<validateRef, hasMediaDevices, now, stopped, supplied>>

\* getUserMedia rejected: the catch block runs
StartReject ==
    /\ awaiting > 0
    /\ awaiting' = awaiting - 1
    /\ \E v \in Validators \cup {NoValidator} :
          /\ pendingValidate[v] > 0
          /\ pendingValidate' = [pendingValidate EXCEPT ![v] = @ - 1]
    /\ state' = [state EXCEPT !.status = "idle", !.error = "denied"]
    /\ ev' = EvOp("reject")
    /\ UNCHANGED <<detectedAt, calc>>
    /\ UNCHANGED <<audioContextRef, streamRef, analyserRef, rafIdRef,
                   lockReadingsRef, lockedRef, lastDetectionRef, validateRef,
                   rafQueue, liveStreams, openContexts, hasMediaDevices,
                   now, stopped, supplied, sessionValidate, run>>

(* ------------------------------------------------------------------ *)
(* reset()                                                             *)
(* ------------------------------------------------------------------ *)
Reset ==
    /\ lockReadingsRef' = <<>>
    /\ lastDetectionRef' = 0
    /\ lockedRef' = FALSE
    /\ state' = ListeningState
    /\ IF analyserRef # Null /\ audioContextRef # Null
       THEN LET loop == Requested(Cancelled(rafQueue, rafIdRef),
                                  audioContextRef)
            IN  /\ rafIdRef' = loop.id
                /\ rafQueue' = loop.queue
       ELSE UNCHANGED <<rafIdRef, rafQueue>>
    /\ stopped' = FALSE
    /\ run' = NoRun
    /\ detectedAt' = Null
    /\ ev' = [EvOp("reset") EXCEPT !.preLen = Len(lockReadingsRef)]
    /\ UNCHANGED calc
    /\ UNCHANGED <<audioContextRef, streamRef, analyserRef, validateRef,
                   awaiting, liveStreams, openContexts, hasMediaDevices, now,
                   supplied, pendingValidate, sessionValidate>>

(* ------------------------------------------------------------------ *)
(* tick: one run of the animation-frame callback                       *)
(* buf is what getFloatTimeDomainData delivers, est what               *)
(* detectFundamentalFrequency returns on the analysis window           *)
(* ------------------------------------------------------------------ *)
\* now - lastDetectionRef.current >= DETECTION_INTERVAL_MS; the variant does
\* not throttle
DetectionDueAlways(t, last) == TRUE
DetectionDue(t, last) == t - last >= DETECTION_INTERVAL_MS

\* the state emitted by a tick that took the reading f in
AfterReading(st, readings, f) ==
    IF LockReached(readings)
    THEN [status |-> "locked", frequency |-> LockedFrequency(readings),
          lockReadings |-> readings, error |-> "null"]
    ELSE [st EXCEPT !.frequency = Round1(f), !.lockReadings = readings]

Tick(buf, est) ==
    \E cb \in rafQueue :
      LET q == rafQueue \ {cb}
          again == Requested(q, cb.ctx)
          best == SelectWindow(buf)
          freq == IF SignalPresent(best.rms) THEN est ELSE NoFreq
          readings == PushReading(lockReadingsRef, freq)
      IN
      /\ UNCHANGED <<audioContextRef, streamRef, analyserRef, validateRef,
                     awaiting, liveStreams, openContexts, hasMediaDevices,
                     now, stopped, supplied, pendingValidate, sessionValidate,
                     calc>>
      /\ IF lockedRef
         THEN \* return
              /\ rafQueue' = q
              /\ ev' = EvOp("tick")
              /\ UNCHANGED <<state, rafIdRef, lockReadingsRef, lockedRef,
                             lastDetectionRef, run, detectedAt>>
         ELSE IF ~DetectionDue(now, lastDetectionRef)
         THEN \* too early: request the next frame
              /\ rafIdRef' = again.id
              /\ rafQueue' = again.queue
              /\ ev' = EvOp("tick")
              /\ UNCHANGED <<state, lockReadingsRef, lockedRef,
                             lastDetectionRef, run, detectedAt>>
         ELSE
              /\ lastDetectionRef' = now
              /\ detectedAt' = now
              /\ ev' = [op |-> "tick", ran |-> TRUE,
                        estimated |-> SignalPresent(best.rms),
                        freq |-> freq, bestRms |-> best.rms,
                        winSumSq |-> WindowSumSq(buf),
                        preLen |-> Len(lockReadingsRef)]
              /\ IF ~HasEstimate(freq)
                 THEN /\ rafIdRef' = again.id
                      /\ rafQueue' = again.queue
                      /\ UNCHANGED <<state, lockReadingsRef, lockedRef, run>>
                 ELSE IF Rejected(validateRef, freq)
                 THEN \* shown, not counted
                      /\ state' = [state EXCEPT !.frequency = Round1(freq)]
                      /\ rafIdRef' = again.id
                      /\ rafQueue' = again.queue
                      /\ UNCHANGED <<lockReadingsRef, lockedRef, run>>
                 ELSE /\ lockReadingsRef' = readings
                      /\ run' = IF IsConsistent(lockReadingsRef, freq)
                                THEN [run EXCEPT !.since = @ + 1]
                                ELSE [discarded |-> Len(lockReadingsRef),
                                      since |-> 0]
                      /\ state' = AfterReading(state, readings, freq)
                      /\ IF LockReached(readings)
                         THEN /\ lockedRef' = TRUE
                              /\ rafQueue' = q
                              /\ UNCHANGED rafIdRef
                         ELSE /\ lockedRef' = lockedRef
                              /\ rafIdRef' = again.id
                              /\ rafQueue' = again.queue

(* ------------------------------------------------------------------ *)
(* The clock                                                           *)
(* ------------------------------------------------------------------ *)
Advance(dt, steps) ==
    /\ now + dt <= dt * steps
    /\ now' = now + dt
    /\ ev' = EvOp("advance")
    /\ UNCHANGED <<detectedAt, calc>>
    /\ UNCHANGED <<state, audioContextRef, streamRef, analyserRef, rafIdRef,
                   lockReadingsRef, lockedRef, lastDetectionRef, validateRef,
                   rafQueue, awaiting, liveStreams, openContexts,
                   hasMediaDevices, stopped, supplied, pendingValidate,
                   sessionValidate, run>>

\* What a tick can read: a tick that returns early (locked, or before the
\* detection interval has passed) reads neither the buffer nor an estimate, and
\* the estimator is called only on a window that passes the silence gate.
TickInputs ==
    IF lockedRef \/ ~DetectionDue(now, lastDetectionRef)
    THEN { [buf |-> Blocks(0, 0, 0, 0, 0, 0, 0, 0), est |-> NoFreq] }
    ELSE { [buf |-> buf, est |-> est] :
             buf \in TickBuffers, est \in Freqs \cup {NoFreq} }
         \ { [buf |-> buf, est |-> est] :
                buf \in { b \in TickBuffers : ~SignalPresent(SelectWindow(b).rms) },
                est \in Freqs }

\* The life cycle: every interleaving of start, stop, reset, the outcomes of
\* getUserMedia, the ticks and the clock.
Next ==
    \/ Stop
    \/ \E v \in Validators \cup {NoValidator} : StartCall(v, MaxLive)
    \/ StartResolve
    \/ StartReject
    \/ Reset
    \/ \E in \in TickInputs : Tick(in.buf, in.est)
    \/ Advance(FrameMs, MaxFrames)

Spec == Init /\ [][Next]_vars

\* One capture at a time (start() is not called while another start() is
\* awaiting getUserMedia), over a clock long enough for two runs of readings.
SessionNext ==
    \/ Stop
    \/ \E v \in Validators \cup {NoValidator} : StartCall(v, 1)
    \/ StartResolve
    \/ Reset
    \/ \E in \in TickInputs : Tick(in.buf, in.est)
    \/ Advance(DETECTION_INTERVAL_MS, SessionSteps)

SessionSpec == Init /\ [][SessionNext]_vars

(* ------------------------------------------------------------------ *)
(* Vocabulary of the properties                                        *)
(* ------------------------------------------------------------------ *)
\* |r - f| / r < 0.03
WithinTolerance(r, f) ==
    IF r >= f THEN 100 * (r - f) < 3 * r ELSE 100 * (f - r) < 3 * r

\* f rounded to one decimal place (a multiple of 10 hundredths), half up
NearestTenth(f) ==
    CHOOSE m \in {10 * k : k \in (f \div 10)..((f \div 10) + 1)} :
        m - f <= 5 /\ f - m < 5

\* the arithmetic mean of the readings rounded to one decimal place, half up
MeanToOneDecimal(readings) ==
    LET n == Len(readings)
        s == SeqSum(readings)
    IN  CHOOSE m \in {10 * k : k \in (s \div (10 * n))..((s \div (10 * n)) + 1)} :
            n * m - s <= 5 * n /\ s - n * m < 5 * n

\* the step is a tick that did detection work
DetectionStep == ev'.op = "tick" /\ ev'.ran

\* the step is a detection tick whose estimate f passed the validator in force
AcceptedStep ==
    /\ DetectionStep
    /\ ev'.freq # NoFreq
    /\ (validateRef = NoValidator \/ Accepts(validateRef, ev'.freq))

\* after the step a callback is pending and rafIdRef names it
Rescheduled == \E c \in rafQueue' : c.id = rafIdRef'

(* ------------------------------------------------------------------ *)
(* C1 .. C10                                                           *)
(* ------------------------------------------------------------------ *)

\* C1: after stop() has returned and until the caller next invokes start()
\* or reset(), no tick executes, no tick callback is pending, no stream or
\* audio context is held, status is 'idle' and the lock buffer is empty.
C1_StopIsFinal ==
    stopped =>
        /\ ev.op # "tick"
        /\ rafQueue = {}
        /\ streamRef = Null
        /\ audioContextRef = Null
        /\ state.status = "idle"
        /\ lockReadingsRef = <<>>

\* C2: at every moment at most one acquired media stream and one audio
\* context is un-released, and when stop() returns every stream acquired
\* before it has been stopped.
C2_NoLeakedCapture ==
    /\ Cardinality(liveStreams) <= 1
    /\ Cardinality(openContexts) <= 1
    /\ (ev.op = "stop" => liveStreams = {} /\ openContexts = {})

\* C3: in status 'listening', a detection tick whose estimate is accepted by
\* the validator and within tolerance of every buffered reading lengthens
\* the lock buffer by one, and the status becomes 'locked' exactly when that
\* reading is the fifth (after 1 to 4 readings it is still 'listening'); the
\* status is 'locked' only with five readings buffered.
C3_LockAtFifthReading ==
    [][ (/\ AcceptedStep
         /\ state.status = "listening"
         /\ \A i \in 1..Len(lockReadingsRef) :
               WithinTolerance(lockReadingsRef[i], ev'.freq))
        => /\ Len(lockReadingsRef') = Len(lockReadingsRef) + 1
           /\ (state'.status = "locked") <=> (Len(lockReadingsRef) = 4)
           /\ state'.status \in {"listening", "locked"}
           /\ (state'.status = "locked" => Len(lockReadingsRef') = 5) ]_vars

C3_Witness ==
    /\ ev.op = "tick"
    /\ ev.preLen = 4
    /\ state.status = "locked"
    /\ run = [discarded |-> 0, since |-> 5]

\* C4: at the tick that locks, the emitted frequency is the arithmetic mean
\* of the buffered readings rounded to one decimal place and lockReadings is
\* the buffer in acceptance order.
C4_LockedMean ==
    [][ (ev'.op = "tick" /\ ~lockedRef /\ lockedRef')
        => LET all == Append(lockReadingsRef, ev'.freq)
           IN  /\ state'.status = "locked"
               /\ state'.lockReadings = all
               /\ state'.frequency = MeanToOneDecimal(all) ]_vars

\* the mean needed rounding up and differs from the last reading
C4_Witness ==
    /\ ev.op = "tick"
    /\ state.status = "locked"
    /\ state.lockReadings = <<41207, 41207, 41207, 41207, 40000>>
    /\ state.frequency = 40970
    /\ state.frequency # NearestTenth(ev.freq)

\* C5: when an accepted estimate f is out of tolerance of at least one
\* buffered reading, the lock buffer after the tick is exactly <<f>>, however
\* many readings were buffered.
C5_OutlierRestartsBuffer ==
    [][ (/\ AcceptedStep
         /\ \E i \in 1..Len(lockReadingsRef) :
               ~WithinTolerance(lockReadingsRef[i], ev'.freq))
        => lockReadingsRef' = <<ev'.freq>> ]_vars

C5_Witness ==
    /\ ev.op = "tick"
    /\ ev.preLen = 4
    /\ lockReadingsRef = <<ev.freq>>
    /\ state.lockReadings = <<ev.freq>>

\* C6 as stated: after 4 consistent readings and an outlier, no lock occurs
\* after fewer than 5 further accepted readings.
C6_FiveMoreReadings ==
    (state.status = "locked" /\ run.discarded = 4) => run.since >= 5

\* C6 amended: the outlier is kept as the first reading of the new run, so
\* after an outlier the lock occurs at the 4th further accepted reading, all
\* consistent, and not before.
C6_FourMoreReadings ==
    (state.status = "locked" /\ run.discarded > 0) => run.since = 4

C6_Witness ==
    /\ ev.op = "tick"
    /\ state.status = "locked"
    /\ run = [discarded |-> 4, since |-> 4]

\* C7: a detection tick with no frequency estimate leaves the lock buffer,
\* the locked flag and the emitted state (status, frequency, lockReadings)
\* unchanged and requests the next frame.
C7_NoEstimateNoChange ==
    [][ (DetectionStep /\ ev'.freq = NoFreq)
        => /\ lockReadingsRef' = lockReadingsRef
           /\ lockedRef' = lockedRef
           /\ state' = state
           /\ Rescheduled ]_vars

\* the estimator ran and found no peak, with readings buffered and shown
C7_Witness ==
    /\ ev.op = "tick"
    /\ ev.ran
    /\ ev.estimated
    /\ ev.freq = NoFreq
    /\ Len(lockReadingsRef) = 3
    /\ state.frequency # Null

\* C8: whenever the RMS of the selected analysis window is below 0.004, the
\* tick does not run the estimator and yields no estimate.
C8_SilenceGate ==
    (/\ ev.op = "tick"
     /\ ev.ran
     /\ ev.winSumSq < MIN_SIGNAL_RMS * MIN_SIGNAL_RMS * analysisSize)
    => ~ev.estimated /\ ev.freq = NoFreq

\* C9: when the validator in force rejects the estimate, the estimate rounded
\* to one decimal is displayed, the lock buffer, the emitted lockReadings,
\* the locked flag and the status are unchanged, and the next frame is
\* requested.
C9_RejectedShownNotCounted ==
    [][ (/\ DetectionStep
         /\ ev'.freq # NoFreq
         /\ validateRef # NoValidator
         /\ ~Accepts(validateRef, ev'.freq))
        => /\ state'.frequency = NearestTenth(ev'.freq)
           /\ lockReadingsRef' = lockReadingsRef
           /\ state'.lockReadings = state.lockReadings
           /\ lockedRef' = lockedRef
           /\ state'.status = state.status
           /\ Rescheduled ]_vars

C9_Witness ==
    /\ ev.op = "tick"
    /\ ev.freq = 70006
    /\ validateRef = BandValidator
    /\ state.frequency = 70010
    /\ Len(lockReadingsRef) = 4
    /\ state.status = "listening"

C11_LockedIsFrozen ==
    [][ /\ (ev'.op = "tick" /\ ~lockedRef /\ lockedRef') => rafQueue' = {}
        /\ (ev'.op = "tick" /\ lockedRef)
              => /\ state' = state
                 /\ lockReadingsRef' = lockReadingsRef
                 /\ lockedRef'
                 /\ rafQueue' \subseteq rafQueue
        /\ (lockedRef /\ ev'.op \notin {"reset", "stop", "start"})
              => /\ state'.frequency = state.frequency
                 /\ state'.lockReadings = state.lockReadings ]_vars

\* C12: reset() with a capture held and status 'listening' or 'locked'
\* empties the lock buffer, clears the locked flag, emits 'listening' with no
\* frequency and no readings, leaves exactly one tick callback pending on the
\* held context, and leaves stream, context, analyser and validator as they
\* were without another getUserMedia request.
C12_ResetKeepsCapture ==
    [][ (/\ ev'.op = "reset"
         /\ state.status \in {"listening", "locked"}
         /\ analyserRef # Null
         /\ audioContextRef # Null)
        => /\ lockReadingsRef' = <<>>
           /\ ~lockedRef'
           /\ state'.status = "listening"
           /\ state'.frequency = Null
           /\ state'.lockReadings = <<>>
           /\ rafQueue' = {[id |-> rafIdRef', ctx |-> audioContextRef]}
           /\ UNCHANGED <<streamRef, audioContextRef, analyserRef,
                          validateRef, awaiting, liveStreams,
                          openContexts>> ]_vars

\* reset() of a locked measurement taken under a validator
C12_Witness ==
    /\ ev.op = "reset"
    /\ ev.preLen = 5
    /\ streamRef # Null
    /\ validateRef = BandValidator
    /\ Cardinality(rafQueue) = 1
    /\ state.status = "listening"

\* C13: within one tick loop a tick does detection work only if at least
\* 350 ms have passed since the loop's previous detection; a tick that fires
\* sooner does no detection, changes no state and requests the next frame.
C13_Throttle ==
    [][ (ev'.op = "tick" /\ detectedAt # Null)
        => /\ ev'.ran => now - detectedAt >= 350
           /\ now - detectedAt < 350
                 => /\ ~ev'.ran
                    /\ state' = state
                    /\ lockReadingsRef' = lockReadingsRef
                    /\ lockedRef' = lockedRef
                    /\ lastDetectionRef' = lastDetectionRef
                    /\ Rescheduled ]_vars

\* a tick one frame after a detection that took a reading in
C13_Witness ==
    /\ ev.op = "tick"
    /\ ~ev.ran
    /\ detectedAt # Null
    /\ now - detectedAt = FrameMs
    /\ Len(lockReadingsRef) = 2
    /\ rafQueue # {}

\* C14: status 'locked' is entered only by a tick that runs in status
\* 'listening'; it is left only to 'listening' by reset() or by stop() or a
\* call of start(); 'listening' turns 'idle' only by stop() or a call of
\* start().
C14_StatusTransitions ==
    [][ /\ (state.status # "locked" /\ state'.status = "locked")
              => ev'.op = "tick" /\ state.status = "listening"
        /\ (state.status = "locked" /\ state'.status # "locked")
              => \/ ev'.op = "reset" /\ state'.status = "listening"
                 \/ ev'.op \in {"stop", "start"}
        /\ (state.status = "listening" /\ state'.status = "idle")
              => ev'.op \in {"stop", "start"} ]_vars

\* C15: when capture acquisition has failed (getUserMedia missing, or its
\* promise rejected) the status is 'idle' with an error message, no tick
\* callback is pending, no capture is held and the lock buffer is empty.
C15_CleanFailure ==
    (ev.op = "reject" \/ (ev.op = "start" /\ ~hasMediaDevices))
    => /\ state.status = "idle"
       /\ state.error # "null"
       /\ rafQueue = {}
       /\ streamRef = Null
       /\ audioContextRef = Null
       /\ analyserRef = Null
       /\ lockReadingsRef = <<>>

(* ------------------------------------------------------------------ *)
(* The window selector as a function of the buffer                     *)
(* ------------------------------------------------------------------ *)
\* magnitudes a block of the time-domain buffer may have: silence, below the
\* gate, above the gate
WindowLevels == {0, 3, 6}

\* every buffer of 8 blocks over WindowLevels
WindowBuffers == [1..(fftSize \div scanStride) -> WindowLevels]

\* the offsets the for loop visits: len - analysisSize down to 0 by 4096
CandidateOffsets ==
    { fftSize - analysisSize - k * scanStride :
        k \in 0..((fftSize - analysisSize) \div scanStride) }

WindowInit ==
    /\ HookInit
    /\ calc \in { [fn |-> "window", arg |-> b,
                   out |-> [rms |-> 0, offset |-> 0], done |-> FALSE] :
                  b \in WindowBuffers }

\* one run of the scan of lines 62-79 on the drawn buffer
SelectWindowStep ==
    /\ calc.fn = "window"
    /\ ~calc.done
    /\ calc' = [calc EXCEPT !.out = SelectWindow(calc.arg), !.done = TRUE]
    /\ UNCHANGED hookVars

WindowNext == SelectWindowStep

WindowSpec == WindowInit /\ [][WindowNext]_vars

\* C16: after the scan no candidate 16384-sample window has a strictly
\* higher energy (sum of squares, hence RMS) over its 16384 samples than the
\* window selected.
C16_MaximalWindow ==
    (calc.fn = "window" /\ calc.done)
    => \A off \in CandidateOffsets :
          SumSq(calc.arg, off, analysisSize)
            <= SumSq(calc.arg, WindowStart(calc.out.offset), analysisSize)

(* ------------------------------------------------------------------ *)
(* Spectral estimator: peak search and interpolation                   *)
(* (detectFundamentalFrequency, audioAnalysis.ts lines 114-144)        *)
(* ------------------------------------------------------------------ *)
\* the estimator's transform length and the edges of its search band (Hz)
estimatorFftSize == 32768
BandLowHz == 200
BandHighHz == 750

\* largest bin magnitude of the spectra drawn
MaxMag == 3

\* sample rates of the AudioContext
SampleRates == {44100, 48000}

RECURSIVE GCD(_, _)
GCD(a, b) == IF b = 0 THEN a ELSE GCD(b, a % b)

\* sampleRate / fftSize in lowest terms
RateNum(sr) == sr \div GCD(sr, estimatorFftSize)
RateDen(sr) == estimatorFftSize \div GCD(sr, estimatorFftSize)

CeilDiv(a, b) == (a + b - 1) \div b

minBin(sr) == (BandLowHz * estimatorFftSize) \div sr
maxBin(sr) ==
    Min(CeilDiv(BandHighHz * estimatorFftSize, sr), estimatorFftSize \div 2 - 1)

\* The transform's output is taken as given: a spectrum is the magnitudes
\* |X[at-1]|, |X[at]|, |X[at+1]| of three neighbouring bins, every other bin
\* being 0.
MagAt(sp, i) ==
    IF i \in (sp.at - 1)..(sp.at + 1) THEN sp.mags[i - sp.at + 2] ELSE 0

\* re[i]^2 + im[i]^2
PowerAt(sp, i) == MagAt(sp, i) * MagAt(sp, i)

\* the peak loop over i = lo..hi with `if (mag > maxMag)` from maxMag = 0:
\* it ends on the first bin whose power is the largest of the range, or on
\* maxIndex = -1 when no bin of the range has power above 0; the variant ends
\* on the last such bin, as `mag >= maxMag` would
PeakInLast(sp, lo, hi) ==
    LET above == { i \in lo..hi : PowerAt(sp, i) > 0 }
    IN  IF above = {} THEN [maxMag |-> 0, maxIndex |-> -1]
        ELSE LET last ==
                   CHOOSE i \in above :
                     \A j \in above :
                        \/ PowerAt(sp, j) < PowerAt(sp, i)
                        \/ PowerAt(sp, j) = PowerAt(sp, i) /\ i >= j
             IN  [maxMag |-> PowerAt(sp, last), maxIndex |-> last]
PeakIn(sp, lo, hi) ==
    LET above == { i \in lo..hi : PowerAt(sp, i) > 0 }
    IN  IF above = {} THEN [maxMag |-> 0, maxIndex |-> -1]
        ELSE LET first ==
                   CHOOSE i \in above :
                     \A j \in above :
                        \/ PowerAt(sp, j) < PowerAt(sp, i)
                        \/ PowerAt(sp, j) = PowerAt(sp, i) /\ i <= j
             IN  [maxMag |-> PowerAt(sp, first), maxIndex |-> first]

\* an estimate is null or the exact fraction num / den of a Hz, den > 0
NoEstimate == [none |-> TRUE, num |-> 0, den |-> 1]
Estimate(n, d) ==
    IF d < 0 THEN [none |-> FALSE, num |-> -n, den |-> -d]
    ELSE [none |-> FALSE, num |-> n, den |-> d]

\* (maxIndex + delta) * sampleRate / fftSize with
\* delta = 0.5 * (prevMag - nextMag) / denom, or 0 when denom = 0; the variant
\* gives no estimate when denom = 0
InterpolatedOrNone(sp, sr, maxIndex) ==
    LET prevMag == IF maxIndex > 0 THEN Sqrt(PowerAt(sp, maxIndex - 1)) ELSE 0
        curMag == Sqrt(PowerAt(sp, maxIndex))
        nextMag == IF maxIndex < estimatorFftSize \div 2 - 1
                   THEN Sqrt(PowerAt(sp, maxIndex + 1)) ELSE 0
        denom == prevMag - 2 * curMag + nextMag
    IN  IF denom # 0
        THEN Estimate((2 * maxIndex * denom + (prevMag - nextMag)) * RateNum(sr),
                      2 * denom * RateDen(sr))
        ELSE NoEstimate
Interpolated(sp, sr, maxIndex) ==
    LET prevMag == IF maxIndex > 0 THEN Sqrt(PowerAt(sp, maxIndex - 1)) ELSE 0
        curMag == Sqrt(PowerAt(sp, maxIndex))
        nextMag == IF maxIndex < estimatorFftSize \div 2 - 1
                   THEN Sqrt(PowerAt(sp, maxIndex + 1)) ELSE 0
        denom == prevMag - 2 * curMag + nextMag
    IN  IF denom # 0
        THEN Estimate((2 * maxIndex * denom + (prevMag - nextMag)) * RateNum(sr),
                      2 * denom * RateDen(sr))
        ELSE Estimate(maxIndex * RateNum(sr), RateDen(sr))

detectFundamentalFrequency(sp, sr) ==
    LET peak == PeakIn(sp, minBin(sr), maxBin(sr))
    IN  IF peak.maxIndex < 0 THEN NoEstimate
        ELSE Interpolated(sp, sr, peak.maxIndex)

\* bins the drawn spectra are centred on: around both edges of the search
\* range and inside it
PeakBins(sr) ==
    { minBin(sr) - 1, minBin(sr), minBin(sr) + 1,
      (minBin(sr) + maxBin(sr)) \div 2,
      maxBin(sr) - 1, maxBin(sr), maxBin(sr) + 1 }

Spectra(sr) ==
    { [at |-> b, mags |-> m] : b \in PeakBins(sr), m \in [1..3 -> 0..MaxMag] }

\* calc.fn = "estimate" is a call of the estimator, calc.fn = "peak" its peak
\* loop alone
EstimatorInit ==
    /\ HookInit
    /\ calc \in UNION { { [fn |-> "estimate", arg |-> [sp |-> sp, sr |-> sr],
                           out |-> NoEstimate, done |-> FALSE] :
                          sp \in Spectra(sr) }
                        \cup
                        { [fn |-> "peak", arg |-> [sp |-> sp, sr |-> sr],
                           out |-> [maxMag |-> 0, maxIndex |-> -1],
                           done |-> FALSE] :
                          sp \in Spectra(sr) } : sr \in SampleRates }

\* one call of the estimator on the drawn spectrum
EstimateStep ==
    /\ calc.fn = "estimate"
    /\ ~calc.done
    /\ calc' = [calc EXCEPT
                  !.out = detectFundamentalFrequency(calc.arg.sp, calc.arg.sr),
                  !.done = TRUE]
    /\ UNCHANGED hookVars

\* the peak loop on the drawn spectrum
PeakStep ==
    /\ calc.fn = "peak"
    /\ ~calc.done
    /\ calc' = [calc EXCEPT
                  !.out = PeakIn(calc.arg.sp, minBin(calc.arg.sr),
                                 maxBin(calc.arg.sr)),
                  !.done = TRUE]
    /\ UNCHANGED hookVars

EstimatorNext == EstimateStep \/ PeakStep

EstimatorSpec == EstimatorInit /\ [][EstimatorNext]_vars

\* an estimate within [200 Hz, 750 Hz]
InBand(e) == BandLowHz * e.den <= e.num /\ e.num <= BandHighHz * e.den

\* C17: every result of detectFundamentalFrequency is none or a frequency f
\* with 200 <= f <= 750.
C17_EstimateInBand ==
    (calc.fn = "estimate" /\ calc.done /\ ~calc.out.none) => InBand(calc.out)

(* ------------------------------------------------------------------ *)
(* Tension physics: weave pattern and cross-string loading             *)
(* (audioAnalysis.ts lines 177-202, App.tsx lines 71-73)               *)
(* ------------------------------------------------------------------ *)
\* multipliers are in ten-thousandths: 1.0 is FactorOne, 0.0015 is perCross
FactorOne == 10000
baseline == 19
perCross == 15

\* largest cross count the factor is applied to
MaxCrosses == 30
CrossCounts == 0..MaxCrosses

\* 1 + (crosses - baseline) * perCross; the variant never goes below 1.0
crossStringMassLoadingFactorClamped(crosses) ==
    Max(FactorOne, FactorOne + (crosses - baseline) * perCross)
crossStringMassLoadingFactor(crosses) ==
    FactorOne + (crosses - baseline) * perCross

\* A pattern string is the sequence of its characters.
DigitChars == <<"0", "1", "2", "3", "4", "5", "6", "7", "8", "9">>
IsDigit(c) == \E n \in 1..10 : DigitChars[n] = c
IsSpace(c) == c = " "
DigitValue(c) == (CHOOSE n \in 1..10 : DigitChars[n] = c) - 1

\* index after the longest run of digits (\d) or of white space (\s) from i
RECURSIVE DigitsEnd(_, _)
DigitsEnd(str, i) ==
    IF i <= Len(str) /\ IsDigit(str[i]) THEN DigitsEnd(str, i + 1) ELSE i
RECURSIVE SpacesEnd(_, _)
SpacesEnd(str, i) ==
    IF i <= Len(str) /\ IsSpace(str[i]) THEN SpacesEnd(str, i + 1) ELSE i

\* parseInt of a string of digits
RECURSIVE ParseIntFrom(_, _)
ParseIntFrom(digits, acc) ==
    IF digits = <<>> THEN acc
    ELSE ParseIntFrom(Tail(digits), acc * 10 + DigitValue(Head(digits)))
parseInt(digits) == ParseIntFrom(digits, 0)

\* pattern.match(/^(\d+)\s*x\s*(\d+)$/): the two groups, or no match
PatternMatch(str) ==
    LET a == DigitsEnd(str, 1)
        b == SpacesEnd(str, a)
        c == SpacesEnd(str, b + 1)
        d == DigitsEnd(str, c)
    IN  IF /\ a > 1
           /\ b <= Len(str) /\ str[b] = "x"
           /\ d > c
           /\ d = Len(str) + 1
        THEN [ok |-> TRUE, g1 |-> SubSeq(str, 1, a - 1),
              g2 |-> SubSeq(str, c, d - 1)]
        ELSE [ok |-> FALSE, g1 |-> <<>>, g2 |-> <<>>]

\* the variant falls back to 16x18
parseStringPatternFallback18(pattern) ==
    LET match == PatternMatch(pattern)
    IN  IF match.ok
        THEN [mains |-> parseInt(match.g1), crosses |-> parseInt(match.g2)]
        ELSE [mains |-> 16, crosses |-> 18]
parseStringPattern(pattern) ==
    LET match == PatternMatch(pattern)
    IN  IF match.ok
        THEN [mains |-> parseInt(match.g1), crosses |-> parseInt(match.g2)]
        ELSE [mains |-> 16, crosses |-> 19]

\* the patterns the setup form offers
PATTERNS ==
    { <<"1", "6", "x", "1", "9">>, <<"1", "6", "x", "1", "8">>,
      <<"1", "8", "x", "2", "0">>, <<"1", "6", "x", "2", "0">> }

\* other values of settings.stringPattern: spaced, and not matching
OtherPatterns ==
    { <<"1", "6", " ", "x", " ", "1", "7">>, <<"1", "8", "x", " ", "2", "2">>,
      <<>>, <<"1", "6", "X", "1", "9">>, <<"1", "6", "x">>, <<"x", "1", "9">>,
      <<"1", "6", "x", "1", "8", " ">>, <<"1", "6", "-", "1", "8">>,
      <<"1", "6", "x", "x", "1", "8">> }

(* ------------------------------------------------------------------ *)
(* Linear density lookup (stringDatabase.ts lines 324-352)             *)
(* ------------------------------------------------------------------ *)
\* Gauges are in micrometres and tabulated densities in hundredths of g/m.
\* Three models of STRING_DATABASE: two, one and four gauges.
Gauge(mm, gm) == [mm |-> mm, linearDensityGM |-> gm]
STRING_DATABASE ==
    << [brand |-> "Luxilon", name |-> "ALU Power",
        gauges |-> <<Gauge(1250, 153), Gauge(1300, 166)>>],
       [brand |-> "Luxilon", name |-> "ALU Power Rough",
        gauges |-> <<Gauge(1250, 154)>>],
       [brand |-> "Babolat", name |-> "RPM Blast",
        gauges |-> <<Gauge(1200, 136), Gauge(1250, 148),
                     Gauge(1300, 163), Gauge(1350, 174)>>] >>

\* the strings looked up: the three of the table and one it does not hold
StringKeys ==
    { [brand |-> STRING_DATABASE[i].brand, name |-> STRING_DATABASE[i].name] :
        i \in 1..Len(STRING_DATABASE) }
      \cup { [brand |-> "Luxilon", name |-> "RPM Blast"] }

\* gauges looked up (micrometres)
GaugeMin == 1140
GaugeMax == 1360

\* a density is null or the exact fraction num / den, den > 0, in units of
\* 0.00001 kg/m: a value in hundredths of g/m divided by 1000 (g/m to kg/m)
NoDensity == [none |-> TRUE, num |-> 0, den |-> 1]
Density(n, d) == [none |-> FALSE, num |-> n, den |-> d]

\* Array.prototype.find: the least of the indices `hits`, or 0 for undefined
FirstOf(hits) ==
    IF hits = {} THEN 0 ELSE CHOOSE i \in hits : \A j \in hits : i <= j

\* [...entry.gauges].sort((a, b) => a.mm - b.mm)
RECURSIVE InsertByMm(_, _)
InsertByMm(sorted, g) ==
    IF sorted = <<>> THEN <<g>>
    ELSE IF g.mm < Head(sorted).mm THEN <<g>> \o sorted
    ELSE <<Head(sorted)>> \o InsertByMm(Tail(sorted), g)
RECURSIVE SortByMm(_)
SortByMm(gs) ==
    IF gs = <<>> THEN <<>>
    ELSE InsertByMm(SortByMm(SubSeq(gs, 1, Len(gs) - 1)), gs[Len(gs)])

\* Math.abs(g.mm - gaugeMm) < 0.005; the variant is equality
GaugeMatchesExactly(g, gaugeMm) == g.mm = gaugeMm
GaugeMatches(g, gaugeMm) == Abs(g.mm - gaugeMm) < 5

\* lo + t * (hi - lo) with t = (gaugeMm - lo.mm) / (hi.mm - lo.mm)
Interpolate(lo, hi, gaugeMm) ==
    Density(lo.linearDensityGM * (hi.mm - lo.mm)
              + (gaugeMm - lo.mm) * (hi.linearDensityGM - lo.linearDensityGM),
            hi.mm - lo.mm)

lookupLinearDensity(brand, name, gaugeMm) ==
    LET at == FirstOf({ i \in 1..Len(STRING_DATABASE) :
                          /\ STRING_DATABASE[i].brand = brand
                          /\ STRING_DATABASE[i].name = name })
    IN  IF at = 0 THEN NoDensity
        ELSE
          LET entry == STRING_DATABASE[at]
              exact == FirstOf({ i \in 1..Len(entry.gauges) :
                                   GaugeMatches(entry.gauges[i], gaugeMm) })
              sorted == SortByMm(entry.gauges)
              Spans(i) == /\ gaugeMm >= sorted[i].mm
                          /\ gaugeMm <= sorted[i + 1].mm
          IN  IF exact # 0
              THEN Density(entry.gauges[exact].linearDensityGM, 1)
              ELSE IF gaugeMm < sorted[1].mm
              THEN Density(sorted[1].linearDensityGM, 1)
              ELSE IF gaugeMm > sorted[Len(sorted)].mm
              THEN Density(sorted[Len(sorted)].linearDensityGM, 1)
              ELSE IF \E i \in 1..(Len(sorted) - 1) : Spans(i)
              THEN LET i == CHOOSE k \in 1..(Len(sorted) - 1) :
                              /\ Spans(k)
                              /\ \A j \in 1..(k - 1) : ~Spans(j)
                   IN  Interpolate(sorted[i], sorted[i + 1], gaugeMm)
              ELSE NoDensity

(* ------------------------------------------------------------------ *)
(* The physics functions applied to drawn arguments                    *)
(* ------------------------------------------------------------------ *)
PhysicsInit ==
    /\ HookInit
    /\ calc \in
         { [fn |-> "factor", arg |-> c, out |-> 0, done |-> FALSE] :
             c \in CrossCounts }
         \cup
         { [fn |-> "pattern", arg |-> pat,
            out |-> [mains |-> 0, crosses |-> 0, factor |-> 0],
            done |-> FALSE] : pat \in PATTERNS \cup OtherPatterns }
         \cup
         { [fn |-> "lookup", arg |-> [key |-> k, gaugeMm |-> g],
            out |-> NoDensity, done |-> FALSE] :
             k \in StringKeys, g \in GaugeMin..GaugeMax }

\* crossStringMassLoadingFactor(crosses)
FactorStep ==
    /\ calc.fn = "factor"
    /\ ~calc.done
    /\ calc' = [calc EXCEPT !.out = crossStringMassLoadingFactor(calc.arg),
                            !.done = TRUE]
    /\ UNCHANGED hookVars

\* computeTension: the factor of the pattern's cross count
PatternStep ==
    /\ calc.fn = "pattern"
    /\ ~calc.done
    /\ LET parsed == parseStringPattern(calc.arg)
       IN  calc' = [calc EXCEPT
                      !.out = [mains |-> parsed.mains,
                               crosses |-> parsed.crosses,
                               factor |->
                                 crossStringMassLoadingFactor(parsed.crosses)],
                      !.done = TRUE]
    /\ UNCHANGED hookVars

\* lookupLinearDensity(brand, name, gaugeMm)
LookupStep ==
    /\ calc.fn = "lookup"
    /\ ~calc.done
    /\ calc' = [calc EXCEPT
                  !.out = lookupLinearDensity(calc.arg.key.brand,
                                              calc.arg.key.name,
                                              calc.arg.gaugeMm),
                  !.done = TRUE]
    /\ UNCHANGED hookVars

PhysicsNext == FactorStep \/ PatternStep \/ LookupStep

PhysicsSpec == PhysicsInit /\ [][PhysicsNext]_vars

(* ------------------------------------------------------------------ *)
(* C18 .. C20                                                          *)
(* ------------------------------------------------------------------ *)

EntriesOf(key) ==
    { STRING_DATABASE[i] : i \in
        { k \in 1..Len(STRING_DATABASE) :
            /\ STRING_DATABASE[k].brand = key.brand
            /\ STRING_DATABASE[k].name = key.name } }

\* two densities are the same fraction
SameDensity(a, b) ==
    /\ a.none = b.none
    /\ a.num * b.den = b.num * a.den

\* the density the precedence rule gives for tabulated gauges gs (ascending)
\* when a query within `within` micrometres of a tabulated gauge counts as
\* that gauge
RuleDensity(gs, gaugeMm, within) ==
    LET near == { i \in 1..Len(gs) : Abs(gs[i].mm - gaugeMm) <= within }
    IN  IF near # {}
        THEN Density(gs[CHOOSE i \in near : \A j \in near : i <= j]
                       .linearDensityGM, 1)
        ELSE IF gaugeMm < gs[1].mm THEN Density(gs[1].linearDensityGM, 1)
        ELSE IF gaugeMm > gs[Len(gs)].mm
        THEN Density(gs[Len(gs)].linearDensityGM, 1)
        ELSE LET i == CHOOSE k \in 1..(Len(gs) - 1) :
                         gs[k].mm < gaugeMm /\ gaugeMm < gs[k + 1].mm
             IN  Interpolate(gs[i], gs[i + 1], gaugeMm)

LookupFollowsRule(within) ==
    (calc.fn = "lookup" /\ calc.done)
    => /\ calc.out.none <=> EntriesOf(calc.arg.key) = {}
       /\ \A e \in EntriesOf(calc.arg.key) :
             SameDensity(calc.out,
                         RuleDensity(e.gauges, calc.arg.gaugeMm, within))

PiNum == 355
PiDen == 113
\* headSizeSqIn * 0.00064516: square metres per square inch, in 1e-8 m^2
SqInToM2 == 64516
\* ratio = 1.45, in hundredths
ratio == 145
\* the grommet correction 0.96, in hundredths
GrommetPct == 96
\* parseFloat(settings.headSizeSqIn) || 100
DefaultHeadSize == 100

\* Math.sqrt, rounded down, by bisection between lo and hi
RECURSIVE SqrtBetween(_, _, _)
SqrtBetween(n, lo, hi) ==
    IF hi - lo <= 1 THEN lo
    ELSE LET mid == (lo + hi) \div 2
         IN  IF mid * mid <= n THEN SqrtBetween(n, mid, hi)
             ELSE SqrtBetween(n, lo, mid)
SqrtFloor(n) == SqrtBetween(n, 0, 46341)

\* the variant leaves the grommet correction out
estimateStringLengthFull(headSizeSqIn) ==
    LET areaRatio == headSizeSqIn * SqInToM2 * ratio
        semiMajor == SqrtFloor((areaRatio \div PiNum) * PiDen)
    IN  2 * semiMajor
estimateStringLength(headSizeSqIn) ==
    LET areaRatio == headSizeSqIn * SqInToM2 * ratio    \* 1e-10 m^2
        semiMajor == SqrtFloor((areaRatio \div PiNum) * PiDen)
        fullLength == 2 * semiMajor
    IN  (fullLength * GrommetPct) \div 100

\* 10^k
RECURSIVE Pow10(_)
Pow10(k) == IF k = 0 THEN 1 ELSE 10 * Pow10(k - 1)

\* parseFloat: leading white space, an optional sign, digits with an
\* optional fraction; what follows is ignored; NaN when there is no digit.
\* The value is sign * num / den.
NaN == [nan |-> TRUE, neg |-> FALSE, num |-> 0, den |-> 1]
parseFloat(str) ==
    LET s0 == SpacesEnd(str, 1)
        signed == s0 <= Len(str) /\ str[s0] \in {"-", "+"}
        s1 == IF signed THEN s0 + 1 ELSE s0
        i1 == DigitsEnd(str, s1)
        dotted == i1 <= Len(str) /\ str[i1] = "."
        f1 == IF dotted THEN DigitsEnd(str, i1 + 1) ELSE i1 + 1
        whole == SubSeq(str, s1, i1 - 1)
        frac == IF dotted THEN SubSeq(str, i1 + 1, f1 - 1) ELSE <<>>
    IN  IF whole = <<>> /\ frac = <<>> THEN NaN
        ELSE [nan |-> FALSE,
              neg |-> signed /\ str[s0] = "-",
              num |-> parseInt(whole \o frac),
              den |-> Pow10(Len(frac))]

\* measuredMm > 0; the variant takes 0 for a measurement
IsPositiveOrZero(x) == ~x.nan /\ ~x.neg
IsPositive(x) == ~x.nan /\ ~x.neg /\ x.num > 0

\* x || fallback for a number x holding an integer
OrDefault(x, fallback) ==
    IF x.nan \/ x.num = 0 THEN fallback
    ELSE IF x.neg THEN -(x.num \div x.den) ELSE x.num \div x.den

\* computeTension's stringLength, with the branch that produced it
stringLength(settings) ==
    LET measuredMm == parseFloat(settings.stringLengthMm)
    IN  IF IsPositive(measuredMm)
        THEN [from |-> "measured", num |-> measuredMm.num * 100,
              den |-> measuredMm.den]
        ELSE [from |-> "estimated",
              num |-> estimateStringLength(
                        OrDefault(parseFloat(settings.headSizeSqIn),
                                  DefaultHeadSize)),
              den |-> 1]

\* the head sizes the setup form offers, and an empty and a zero field
HEAD_SIZES ==
    { <<"9", "5">>, <<"9", "7">>, <<"9", "8">>, <<"1", "0", "0">>,
      <<"1", "0", "2">>, <<"1", "0", "4">>, <<"1", "1", "0">> }
OtherHeadSizes == { <<>>, <<"0">> }

\* values of the measured-length field
LengthFields ==
    { <<>>, <<"3", "2", "0">>, <<"3", "2", "0", ".", "5">>, <<"0">>,
      <<"0", ".", "0">>, <<"-", "5">>, <<".", "5">>, <<" ", "3", "1", "0">>,
      <<"3", "1", "5", "m", "m">>, <<"m">>, <<"-">>, <<"+", "3", "3", "1">>,
      <<"3", "3", "1", ".", "3", "2">> }

\* head sizes estimateStringLength is applied to (square inches)
HeadMin == 85
HeadMax == 135

LengthInit ==
    /\ HookInit
    /\ calc \in
         { [fn |-> "estimate length", arg |-> h, out |-> 0, done |-> FALSE] :
             h \in HeadMin..HeadMax }
         \cup
         { [fn |-> "length",
            arg |-> [stringLengthMm |-> m, headSizeSqIn |-> h],
            out |-> [from |-> "none", num |-> 0, den |-> 1],
            done |-> FALSE] :
             m \in LengthFields, h \in HEAD_SIZES \cup OtherHeadSizes }

\* estimateStringLength(headSizeSqIn)
EstimateLengthStep ==
    /\ calc.fn = "estimate length"
    /\ ~calc.done
    /\ calc' = [calc EXCEPT !.out = estimateStringLength(calc.arg),
                            !.done = TRUE]
    /\ UNCHANGED hookVars

\* computeTension, lines 75-79
StringLengthStep ==
    /\ calc.fn = "length"
    /\ ~calc.done
    /\ calc' = [calc EXCEPT !.out = stringLength(calc.arg), !.done = TRUE]
    /\ UNCHANGED hookVars

LengthNext == EstimateLengthStep \/ StringLengthStep

LengthSpec == LengthInit /\ [][LengthNext]_vars

(* ------------------------------------------------------------------ *)
(* C21, C22                                                            *)
(* ------------------------------------------------------------------ *)

\* C21: when settings.stringLengthMm parses to a positive number of
\* millimetres, computeTension's length is that number / 1000 metres, taken
\* from the measurement and not from estimateStringLength; otherwise it is
\* the head-size estimate (of the head size given, or of 100 sq in).
C21_MeasuredLengthOverrides ==
    (calc.fn = "length" /\ calc.done)
    => LET m == parseFloat(calc.arg.stringLengthMm)
           h == parseFloat(calc.arg.headSizeSqIn)
       IN  /\ IF ~m.nan /\ ~m.neg /\ m.num > 0
              THEN /\ calc.out.from = "measured"
                   /\ calc.out.num * m.den = m.num * 100 * calc.out.den
              ELSE /\ calc.out.from = "estimated"
                   /\ calc.out.den = 1
                   /\ calc.out.num =
                        estimateStringLength(
                          IF h.nan \/ h.num = 0 THEN 100 ELSE h.num \div h.den)
           /\ calc.arg.stringLengthMm = <<"3", "2", "0">>
                 => calc.out.from = "measured"
                    /\ calc.out.num = 32000 * calc.out.den
           /\ calc.arg.stringLengthMm \in {<<>>, <<"0">>, <<"-", "5">>, <<"m">>}
                 => calc.out.from = "estimated"

\* 320.5 mm measured on a 100 sq in head: 0.3205 m, not the estimate
C21_Witness ==
    /\ calc.fn = "length"
    /\ calc.done
    /\ calc.arg.stringLengthMm = <<"3", "2", "0", ".", "5">>
    /\ calc.arg.headSizeSqIn = <<"1", "0", "0">>
    /\ calc.out.from = "measured"
    /\ calc.out.num = 32050 * calc.out.den
    /\ calc.out.num # estimateStringLength(100) * calc.out.den

\* C22: for a head size of 100 sq in the head-size model yields a vibrating
\* length of approximately 0.2978 m (0.2978 to four decimal places).
C22_LengthOf100SqIn ==
    (calc.fn = "estimate length" /\ calc.done /\ calc.arg = 100)
    => calc.out >= 29775 /\ calc.out < 29785

\* C22, as the code has it: for a head size of 100 sq in the head-size model
\* yields approximately 0.3313 m.
C22_LengthOf100SqInIs3313 ==
    (calc.fn = "estimate length" /\ calc.done /\ calc.arg = 100)
    => calc.out >= 33125 /\ calc.out < 33135

\* the estimate for 100 sq in has been computed
C22_Witness ==
    /\ calc.fn = "estimate length"
    /\ calc.done
    /\ calc.arg = 100
    /\ calc.out = 33131

(* ------------------------------------------------------------------ *)
(* The consensus buffer under a stream of accepted estimates           *)
(* (tick, lines 99-112; reset, line 204)                               *)
(* ------------------------------------------------------------------ *)
\* accepted estimates (hundredths of Hz): 412.00 is exactly 3% above 400.00,
\* 411.99 just inside, 408.00 and 416.00 are 2% steps
ConsensusFreqs == {40000, 40800, 41199, 41200, 41600}

\* calc.arg is the buffer and the estimate of the last tick, calc.out the
\* buffer after it
ConsensusInit ==
    /\ HookInit
    /\ calc = [fn |-> "consensus", arg |-> [readings |-> <<>>, freq |-> NoFreq],
               out |-> <<>>, done |-> FALSE]

\* a tick takes the accepted estimate f in (no tick runs once locked)
PushStep(f) ==
    /\ calc.fn = "consensus"
    /\ ~LockReached(calc.out)
    /\ calc' = [calc EXCEPT !.arg = [readings |-> calc.out, freq |-> f],
                            !.out = PushReading(calc.out, f),
                            !.done = TRUE]
    /\ UNCHANGED hookVars

\* reset() empties the buffer
ClearStep ==
    /\ calc.fn = "consensus"
    /\ calc.out # <<>>
    /\ calc' = [calc EXCEPT !.arg = [readings |-> calc.out, freq |-> NoFreq],
                            !.out = <<>>,
                            !.done = FALSE]
    /\ UNCHANGED hookVars

ConsensusNext == (\E f \in ConsensusFreqs : PushStep(f)) \/ ClearStep

ConsensusSpec == ConsensusInit /\ [][ConsensusNext]_vars

(* ------------------------------------------------------------------ *)
(* C23                                                                 *)
(* ------------------------------------------------------------------ *)

\* C23: an accepted estimate f is appended to the buffer exactly when the
\* buffer is empty or every buffered reading r has |r - f| / r < 0.03 (strict,
\* relative to r); otherwise the buffer restarts from f.  A reading exactly 3%
\* above a buffered reading is not appended.
C23_ConsistencyPredicate ==
    (calc.fn = "consensus" /\ calc.done)
    => LET rs == calc.arg.readings
           f == calc.arg.freq
           consistent == \/ Len(rs) = 0
                         \/ \A i \in 1..Len(rs) : WithinTolerance(rs[i], f)
       IN  /\ calc.out = IF consistent THEN Append(rs, f) ELSE <<f>>
           /\ (40000 \in { rs[i] : i \in 1..Len(rs) } /\ f = 41200)
                 => calc.out = <<f>>

\* 400.00 after 412.00 is 2.91% of 412.00 away and is appended, although
\* 412.00 after 400.00 is not
C23_Witness ==
    /\ calc.fn = "consensus"
    /\ calc.done
    /\ calc.arg.readings = <<41200>>
    /\ calc.arg.freq = 40000
    /\ calc.out = <<41200, 40000>>

(* ------------------------------------------------------------------ *)
(* C27                                                                 *)
(* ------------------------------------------------------------------ *)

\* C27: any two readings r_i (taken in earlier) and r_j (taken in later) of
\* the lock buffer have |r_i - r_j| / r_i < 0.03.
C27_PairwiseConsistent ==
    (calc.fn = "consensus")
    => \A i, j \in 1..Len(calc.out) :
          i < j => WithinTolerance(calc.out[i], calc.out[j])

\* the same of the hook's buffer and of the readings it emits
C27_PairwiseConsistentRef ==
    /\ \A i, j \in 1..Len(lockReadingsRef) :
          i < j => WithinTolerance(lockReadingsRef[i], lockReadingsRef[j])
    /\ \A i, j \in 1..Len(state.lockReadings) :
          i < j => WithinTolerance(state.lockReadings[i], state.lockReadings[j])

\* five readings, not all equal, after 400.00, 408.00, 416.00 could not
\* accumulate
C27_Witness ==
    /\ calc.fn = "consensus"
    /\ calc.done
    /\ Len(calc.out) = LOCK_COUNT
    /\ calc.out[1] = 40000
    /\ calc.out[2] = 40800
    /\ calc.out[5] = 41199

(* ------------------------------------------------------------------ *)
(* C24                                                                 *)
(* ------------------------------------------------------------------ *)

\* C24: the lock buffer holds between 0 and LOCK_COUNT readings; fewer than
\* LOCK_COUNT while the status is 'listening', exactly LOCK_COUNT whenever the
\* status is 'locked'.
C24_LockBufferBound ==
    /\ Len(lockReadingsRef) \in 0..5
    /\ state.status = "listening" => Len(lockReadingsRef) < 5
    /\ state.status = "locked" => Len(lockReadingsRef) = 5

\* a locked measurement, and before it a listening one with four readings
C24_Witness ==
    /\ state.status = "locked"
    /\ lockedRef
    /\ Len(lockReadingsRef) = LOCK_COUNT
    /\ ev.op = "tick"
    /\ ev.preLen = LOCK_COUNT - 1

(* ------------------------------------------------------------------ *)
(* C28, C29                                                            *)
(* ------------------------------------------------------------------ *)

\* C28: at most one tick callback is pending at any time, and it is the one
\* rafIdRef names.
C28_SingleTickLoop ==
    /\ Cardinality(rafQueue) <= 1
    /\ \A c \in rafQueue : c.id = rafIdRef

\* a second start() has resolved while the loop of the first was scheduled
C28_Witness ==
    /\ ev.op = "resolve"
    /\ Cardinality(liveStreams) = 2
    /\ Cardinality(rafQueue) = 1
    /\ \A c \in rafQueue : c.ctx = audioContextRef

\* C29: whenever the status is 'listening', an analyser and an audio context
\* are held and a tick callback is pending.
C29_ListeningMeansLive ==
    state.status = "listening"
    => /\ analyserRef # Null
       /\ audioContextRef # Null
       /\ rafQueue # {}

(* ------------------------------------------------------------------ *)
(* C25, C26                                                            *)
(* ------------------------------------------------------------------ *)
\* every bin of the search range [floor(200 F / sr), min(ceil(750 F / sr),
\* F/2 - 1)] has squared magnitude 0
SilentInRange(sp, sr) ==
    \A i \in ((200 * 32768) \div sr)..Min(CeilDiv(750 * 32768, sr), 16383) :
       PowerAt(sp, i) = 0

C25_WitnessSilent ==
    /\ calc.fn = "estimate"
    /\ calc.done
    /\ calc.arg.sp.at = minBin(calc.arg.sr) - 1
    /\ calc.arg.sp.mags = <<3, 3, 0>>
    /\ calc.out.none

\* prevMag - 2 curMag + nextMag at the chosen bin
DenomAt(sp, b) ==
    Sqrt(PowerAt(sp, b - 1)) - 2 * Sqrt(PowerAt(sp, b)) + Sqrt(PowerAt(sp, b + 1))

\* C26: when the interpolation denominator mag[i-1] - 2 mag[i] + mag[i+1] at
\* the chosen bin i is zero, the estimator returns a frequency, and exactly
\* i * sampleRate / F.
C26_ZeroDenominator ==
    (calc.fn = "estimate" /\ calc.done)
    => LET sp == calc.arg.sp
           b == PeakIn(sp, minBin(calc.arg.sr), maxBin(calc.arg.sr)).maxIndex
       IN  (b # -1 /\ DenomAt(sp, b) = 0)
           => /\ ~calc.out.none
              /\ LET g == GCD(calc.out.num, calc.out.den)
                     h == GCD(b * calc.arg.sr, 32768)
                 IN  /\ calc.out.num \div g = (b * calc.arg.sr) \div h
                     /\ calc.out.den \div g = 32768 \div h

\* the chosen bin is the first of the range, with a larger magnitude just
\* below the range: 3 - 2 * 2 + 1 = 0
C26_Witness ==
    /\ calc.fn = "estimate"
    /\ calc.done
    /\ calc.arg.sr = 48000
    /\ calc.arg.sp.at = 136
    /\ calc.arg.sp.mags = <<3, 2, 1>>
    /\ ~calc.out.none
    /\ calc.out.num * 32768 = 136 * 48000 * calc.out.den

(* ------------------------------------------------------------------ *)
(* C30                                                                 *)
(* ------------------------------------------------------------------ *)

\* C30: while a tick of a capture is pending, the validator in force is the
\* one given to the start() call that set the capture up (none if it was given
\* none), also after reset(); after stop() no validator is in force.
C30_ValidatorInForce ==
    /\ ev.op = "stop" => validateRef = NoValidator
    /\ rafQueue # {} => validateRef = sessionValidate


====
